---- MODULE Spec2Model ----
(***************************************************************************)
(* Schema-Jenerator: tiered JSON-Schema inference (src/src/schema/mod.rs,  *)
(* generators.rs, types.rs).  generate_schema is a pure recursive function *)
(* over serde_json::Value; the state machine below calls it once on an     *)
(* input drawn from a bounded set of value trees.                          *)
(*                                                                         *)
(* Representation                                                          *)
(*   serde_json::Value  -> a record tagged by `kind`                       *)
(*   serde_json::Map    -> a sequence of <<key, value>> pairs, keys unique *)
(*   serde_json::Number -> [rep, a, d, half]: the variant (PosInt, NegInt, *)
(*                         Float) and the value  anchor(a) + d + half/2,   *)
(*                         where the anchor a is one of 0, -2^63, 2^63,    *)
(*                         2^64.  TLC's integers are 32 bits wide, so a    *)
(*                         64-bit quantity is kept as an exact offset from *)
(*                         the nearest anchor; i64 wrap-around and f64     *)
(*                         rounding are computed on that form.             *)
(*   anyhow::Result     -> [tag |-> "Ok", val |-> v]; a panic (arithmetic  *)
(*                         overflow in a build with overflow checks) is    *)
(*                         [tag |-> "Panic"].                              *)
(***************************************************************************)
EXTENDS Integers, Sequences, FiniteSets, TLC

VARIABLES
    overflow_checks,  \* build profile: integer overflow panics (debug) or wraps (release)
    preserve_order,   \* build feature of serde_json: Map is an IndexMap (TRUE) or a BTreeMap (FALSE)
    value,            \* the input value tree handed to generate_schema
    tier,             \* the SchemaOutputTier handed to generate_schema
    pc,               \* "call" before the call, "done" after it
    result,           \* what the call returned
    files,            \* the directory: file name -> what is stored under it
    args,             \* the parsed command line (cli.rs Args) but for the tier
    input,            \* process_single_file: the path it was called with
    json_content,     \* process_single_file: the text read from the input
    todo,             \* process_batch: the glob entries not yet visited
    processed,        \* process_batch: the counter of successes
    errors,           \* process_batch: the recorded failures
    ret,              \* what the last process_single_file returned
    run,              \* how the program ended
    matched,          \* history: the entries glob yielded
    entry_files,      \* history: the directory when process_single_file was entered
    outputs           \* history: the writes done, <<input, output path>> each

vars_core == <<overflow_checks, preserve_order, value, tier, pc, result>>

vars_cli == <<files, args, input, json_content, todo, processed, errors, ret, run,
              matched, entry_files, outputs>>

vars == <<overflow_checks, preserve_order, value, tier, pc, result,
          files, args, input, json_content, todo, processed, errors, ret, run,
          matched, entry_files, outputs>>

(***************************************************************************)
(* Bounds of the input space.                                              *)
(***************************************************************************)
MaxLen == 2      \* longest input array drawn from Elems
MaxKeys == 2     \* most keys of an input object

(***************************************************************************)
(* SchemaOutputTier                                                        *)
(***************************************************************************)
SchemaOutputTier == {"Basic", "Standard", "Comprehensive", "Expert"}

(***************************************************************************)
(* Result and Option                                                       *)
(***************************************************************************)
Ok(v) == [tag |-> "Ok", val |-> v]
Panic == [tag |-> "Panic"]
Err(e) == [tag |-> "Err", err |-> e]
Some(v) == [some |-> TRUE, v |-> v]
None == [some |-> FALSE]

(***************************************************************************)
(* serde_json::Value                                                       *)
(***************************************************************************)
Null == [kind |-> "null"]
Bool(b) == [kind |-> "boolean", b |-> b]
Number(n) == [kind |-> "number", n |-> n]
String(s) == [kind |-> "string", s |-> s]
Array(xs) == [kind |-> "array", elems |-> xs]
Object(m) == [kind |-> "object", map |-> m]

is_null(v) == v.kind = "null"

(***************************************************************************)
(* serde_json::Map<String, Value>.  String keys are ordered bytewise; the  *)
(* keys that occur in the model are listed here in that order.             *)
(***************************************************************************)
KeyOrder ==
    << "$schema", "a", "additionalProperties", "age", "b", "c", "d",
       "default_tier", "description", "examples", "file_extensions", "format",
       "is_active", "items", "maxItems", "maxLength", "maximum", "minItems",
       "minLength", "minProperties", "minimum", "multipleOf", "name", "oneOf",
       "output_directory", "pattern", "pretty_output", "properties",
       "required", "title", "type", "uniqueItems", "validate_schema" >>

KeyRank(k) == CHOOSE i \in 1..Len(KeyOrder) : KeyOrder[i] = k

KeyLt(j, k) == KeyRank(j) < KeyRank(k)

MapNew == << >>

MapKeys(m) == [i \in 1..Len(m) |-> m[i][1]]

MapHas(m, k) == \E i \in 1..Len(m) : m[i][1] = k

MapGet(m, k) == m[CHOOSE i \in 1..Len(m) : m[i][1] = k][2]

\* Map::insert: an existing key keeps its place and takes the new value; a
\* new key goes last (IndexMap) or to its sorted place (BTreeMap).
MapInsert(m, k, v) ==
    IF MapHas(m, k)
    THEN [i \in 1..Len(m) |-> IF m[i][1] = k THEN <<k, v>> ELSE m[i]]
    ELSE IF preserve_order
         THEN Append(m, <<k, v>>)
         ELSE LET before == SelectSeq(m, LAMBDA e : KeyLt(e[1], k))
                  after == SelectSeq(m, LAMBDA e : KeyLt(k, e[1]))
              IN before \o << <<k, v>> >> \o after

\* schema[key] = v on a Value::Object (IndexMut<&str> for Value).
IndexSet(schema, k, v) == Object(MapInsert(schema.map, k, v))

\* schema[key] read (Index<&str> for Value): Null when the key is absent.
IndexGet(schema, k) ==
    IF schema.kind = "object" /\ MapHas(schema.map, k)
    THEN MapGet(schema.map, k)
    ELSE Null

HasField(schema, k) == schema.kind = "object" /\ MapHas(schema.map, k)

FieldNames(schema) == {schema.map[i][1] : i \in 1..Len(schema.map)}

\* A Map built by inserting the pairs of a sequence in order (the parser
\* and the json! macro build objects this way).
RECURSIVE MapFrom(_)
MapFrom(pairs) ==
    IF pairs = << >>
    THEN MapNew
    ELSE LET n == Len(pairs)
         IN MapInsert(MapFrom(SubSeq(pairs, 1, n - 1)), pairs[n][1], pairs[n][2])

(***************************************************************************)
(* 64-bit numbers.  An i64 or u64 is [a, d]: the value anchor(a) + d; an   *)
(* f64 is [a, d, half]: the value anchor(a) + d + half/2.  Offsets stay    *)
(* far below 2^31, so a value has one form only:                           *)
(*   i64: a = "0", or a = "-2^63" with d >= 0, or a = "2^63" with d < 0    *)
(*   u64: a = "0" with d >= 0, or a = "2^63", or a = "2^64" with d < 0     *)
(*   f64: any anchor, d + half/2 a point of the f64 grid at that anchor    *)
(***************************************************************************)
InI64(x) ==
    \/ x.a = "0"
    \/ x.a = "-2^63" /\ x.d >= 0
    \/ x.a = "2^63" /\ x.d < 0

IsNegative(x) == x.a = "-2^63" \/ (x.a = "0" /\ x.d < 0)

\* Two's-complement wrap of an out-of-range sum into the i64 range.
WrapI64(x) ==
    IF InI64(x) THEN x
    ELSE IF x.a = "-2^63" THEN [a |-> "2^63", d |-> x.d]
    ELSE IF x.a = "2^63" THEN [a |-> "-2^63", d |-> x.d]
    ELSE x

\* i64 `x + k` for a small literal k (k < 0 for a subtraction): a panic in
\* a build with overflow checks, the wrapped value otherwise.
I64Add(x, k) ==
    LET sum == [a |-> x.a, d |-> x.d + k]
    IN IF InI64(sum) THEN Ok(sum)
       ELSE IF overflow_checks THEN Panic
       ELSE Ok(WrapI64(sum))

\* Spacing of the f64 grid just above and just below an anchor: 2^63 has
\* exponent 63 and a 52-bit fraction, so its neighbours are 2^11 above and
\* 2^10 below; 2^64 likewise 2^12 and 2^11.
UlpAway(a) == IF a = "2^64" THEN 4096 ELSE 2048
UlpToward(a) == IF a = "2^64" THEN 2048 ELSE 1024

\* Round m/2 to the nearest multiple of step, ties to the even multiple
\* (m >= 0 counted in halves; the multiple's parity is the parity of the
\* f64 significand at the anchors above).
RoundTiesEven(m, step) ==
    LET q == m \div (2 * step)
        r == m % (2 * step)
    IN IF r < step THEN q
       ELSE IF r > step THEN q + 1
       ELSE IF q % 2 = 0 THEN q ELSE q + 1

\* The f64 nearest to an exact value anchor(a) + d + half/2.  Near 0 every
\* value of the model is an f64 already.
RoundF64(x) ==
    IF x.a = "0" THEN x
    ELSE LET m == 2 * x.d + x.half
             sign == IF x.a = "-2^63" THEN -1 ELSE 1
             away == (sign * m) >= 0
             step == IF away THEN UlpAway(x.a) ELSE UlpToward(x.a)
             q == RoundTiesEven(IF m >= 0 THEN m ELSE -m, step)
         IN [a |-> x.a, d |-> (IF m >= 0 THEN 1 ELSE -1) * q * step, half |-> 0]

\* f64 `x + k` for a small literal k.
F64Add(x, k) == RoundF64([a |-> x.a, d |-> x.d + k, half |-> x.half])

\* `n as f64` for an integer.
IntAsF64(x) == RoundF64([a |-> x.a, d |-> x.d, half |-> 0])

(***************************************************************************)
(* serde_json::Number: N::PosInt(u64), N::NegInt(i64) (always negative),   *)
(* N::Float(f64) (always finite).                                          *)
(***************************************************************************)
PosInt(x) == [rep |-> "PosInt", a |-> x.a, d |-> x.d, half |-> 0]
NegInt(x) == [rep |-> "NegInt", a |-> x.a, d |-> x.d, half |-> 0]
Float(x) == [rep |-> "Float", a |-> x.a, d |-> x.d, half |-> x.half]

IntOf(n) == [a |-> n.a, d |-> n.d]
F64Of(n) == [a |-> n.a, d |-> n.d, half |-> n.half]

is_i64(n) ==
    CASE n.rep = "PosInt" -> InI64(IntOf(n))
      [] n.rep = "NegInt" -> TRUE
      [] OTHER -> FALSE

\* is_u64 that answers for values up to i64::MAX only.
is_u64_small(n) == n.rep = "PosInt" /\ InI64([a |-> n.a, d |-> n.d])

is_u64(n) == n.rep = "PosInt"

as_i64(n) ==
    CASE n.rep = "PosInt" -> IF InI64(IntOf(n)) THEN Some(IntOf(n)) ELSE None
      [] n.rep = "NegInt" -> Some(IntOf(n))
      [] OTHER -> None

as_f64(n) ==
    CASE n.rep = "Float" -> Some(F64Of(n))
      [] OTHER -> Some(IntAsF64(IntOf(n)))

\* Number::from(i64), as used by json!(n_val) and by `1.into()`.
NumberFromI64(x) == IF IsNegative(x) THEN NegInt(x) ELSE PosInt(x)

\* Number::from(usize) for a small count.
NumberFromUsize(k) == PosInt([a |-> "0", d |-> k])

\* json!(n_val) for an f64: Number::from_f64, which is Some for a finite f64.
ValueFromF64(x) == Number(Float(x))

ValueFromI64(x) == Number(NumberFromI64(x))

ValueFromUsize(k) == Number(NumberFromUsize(k))

(***************************************************************************)
(* Strings.  A str is a TLA+ string; its chars() are given by Chars for    *)
(* the strings of the model, and len() is the UTF-8 byte length.           *)
(***************************************************************************)
Chars(s) ==
    CASE s = "" -> << >>
      [] s = "ab" -> <<"a", "b">>
      [] s = "a@b.c" -> <<"a", "@", "b", ".", "c">>
      [] s = "http" -> <<"h", "t", "t", "p">>
      [] s = "12" -> <<"1", "2">>
      [] s = "1-2 3" -> <<"1", "-", "2", " ", "3">>
      [] s = "né" -> <<"n", "é">>
      [] s = "John" -> <<"J", "o", "h", "n">>
      [] s = "http://a@b.c" ->
            <<"h", "t", "t", "p", ":", "/", "/", "a", "@", "b", ".", "c">>
      [] s = "1@2.3" -> <<"1", "@", "2", ".", "3">>
      [] s = "a b" -> <<"a", " ", "b">>
      [] s = "Standard" -> <<"S", "t", "a", "n", "d", "a", "r", "d">>
      [] s = "json" -> <<"j", "s", "o", "n">>
      [] s = "out" -> <<"o", "u", "t">>

AsciiDigits == {"0", "1", "2", "3", "4", "5", "6", "7", "8", "9"}

is_ascii_digit(c) == c \in AsciiDigits

Utf8Len(c) == IF c = "é" THEN 2 ELSE 1

RECURSIVE SumUtf8(_)
SumUtf8(cs) == IF cs = << >> THEN 0 ELSE Utf8Len(Head(cs)) + SumUtf8(Tail(cs))

\* str::len
StrLen(s) == SumUtf8(Chars(s))

\* str::is_empty
StrIsEmpty(s) == Chars(s) = << >>

\* str::contains(char)
StrContains(s, c) == \E i \in 1..Len(Chars(s)) : Chars(s)[i] = c

\* str::starts_with(&str)
StrStartsWith(s, prefix) ==
    /\ Len(Chars(s)) >= Len(Chars(prefix))
    /\ SubSeq(Chars(s), 1, Len(Chars(prefix))) = Chars(prefix)

\* s.chars().all(|c| c.is_ascii_digit() || c == '-' || c == ' ')
AllDigitDashSpace(s) ==
    \A i \in 1..Len(Chars(s)) :
        is_ascii_digit(Chars(s)[i]) \/ Chars(s)[i] = "-" \/ Chars(s)[i] = " "

(***************************************************************************)
(* src/src/schema/types.rs                                                 *)
(***************************************************************************)
\* detect_string_format with the uri test ahead of the email test.
detect_string_format_uri_first(s) ==
    IF StrStartsWith(s, "http") THEN Some("uri")
    ELSE IF StrContains(s, "@") /\ StrContains(s, ".") THEN Some("email")
    ELSE None

detect_string_format(s) ==
    IF StrContains(s, "@") /\ StrContains(s, ".") THEN Some("email")
    ELSE IF StrStartsWith(s, "http") THEN Some("uri")
    ELSE IF AllDigitDashSpace(s) THEN None
    ELSE None

\* detect_string_pattern that accepts ASCII digits only.
detect_string_pattern_digits_only(s) ==
    IF \A i \in 1..Len(Chars(s)) : is_ascii_digit(Chars(s)[i])
    THEN Some("^[\\d\\-\\s]+$") ELSE None

detect_string_pattern(s) ==
    IF AllDigitDashSpace(s) THEN Some("^[\\d\\-\\s]+$") ELSE None

get_array_item_types(arr) == {arr[i].kind : i \in 1..Len(arr)}

\* The homogeneity test with its limit off by one.
is_homogeneous_array_two(arr) == Cardinality(get_array_item_types(arr)) <= 2

is_homogeneous_array(arr) == Cardinality(get_array_item_types(arr)) <= 1

(***************************************************************************)
(* src/src/schema/generators.rs and src/src/schema/mod.rs                  *)
(***************************************************************************)
RECURSIVE generate_schema(_, _)
RECURSIVE object_properties(_, _, _)
RECURSIVE array_item_schemas(_, _, _)

\* The push to required_props without the Standard arm's null test.
required_push_nulls_too(required_props, key, val, t) ==
    CASE t = "Basic" -> required_props
      [] OTHER -> Append(required_props, String(key))

\* The tier's push to required_props inside the loop over the entries
\* (generators.rs 26-36).
required_push(required_props, key, val, t) ==
    CASE t = "Basic" -> required_props
      [] t = "Standard" ->
            IF ~is_null(val) THEN Append(required_props, String(key))
            ELSE required_props
      [] OTHER -> Append(required_props, String(key))

\* The loop over the entries, leaving null-valued entries out of properties.
object_properties_skip_null(entries, t, acc) ==
    IF entries = << >>
    THEN Ok(acc)
    ELSE LET key == Head(entries)[1]
             val == Head(entries)[2]
             property_schema == generate_schema(val, t)
         IN IF property_schema.tag # "Ok"
            THEN property_schema
            ELSE object_properties(
                    Tail(entries), t,
                    [properties_map |->
                        IF is_null(val) THEN acc.properties_map
                        ELSE MapInsert(acc.properties_map, key, property_schema.val),
                     required_props |->
                        required_push(acc.required_props, key, val, t)])

\* The loop over the entries with the children generated at Basic, not at
\* the tier of the call.
object_properties_basic_children(entries, t, acc) ==
    IF entries = << >>
    THEN Ok(acc)
    ELSE LET key == Head(entries)[1]
             val == Head(entries)[2]
             property_schema == generate_schema(val, "Basic")
         IN IF property_schema.tag # "Ok"
            THEN property_schema
            ELSE object_properties(
                    Tail(entries), t,
                    [properties_map |->
                        MapInsert(acc.properties_map, key, property_schema.val),
                     required_props |->
                        required_push(acc.required_props, key, val, t)])

\* `for (key, value) in obj { ... }` (generators.rs 22-37): the entries
\* still to visit and the two accumulators.  The `?` returns early.
object_properties(entries, t, acc) ==
    IF entries = << >>
    THEN Ok(acc)
    ELSE LET key == Head(entries)[1]
             val == Head(entries)[2]
             property_schema == generate_schema(val, t)
         IN IF property_schema.tag # "Ok"
            THEN property_schema
            ELSE object_properties(
                    Tail(entries), t,
                    [properties_map |->
                        MapInsert(acc.properties_map, key, property_schema.val),
                     required_props |->
                        required_push(acc.required_props, key, val, t)])

\* The Comprehensive arm of the closing match (generators.rs 50-53), with
\* additionalProperties copied from the Standard arm.
object_comprehensive_lax(schema) ==
    IndexSet(IndexSet(schema, "additionalProperties", Bool(TRUE)),
             "minProperties", ValueFromUsize(1))

\* The Comprehensive arm of the closing match (generators.rs 50-53).
object_comprehensive(schema) ==
    IndexSet(IndexSet(schema, "additionalProperties", Bool(FALSE)),
             "minProperties", ValueFromUsize(1))

\* The Expert arm of the closing match, without its minProperties line.
object_expert_no_min(schema) ==
    IndexSet(IndexSet(IndexSet(schema,
        "additionalProperties", Bool(FALSE)),
        "title", String("Generated Object Schema")),
        "description", String("Auto-generated schema from JSON data"))

\* The Expert arm of the closing match (generators.rs 54-59).
object_expert(schema) ==
    IndexSet(IndexSet(IndexSet(IndexSet(schema,
        "additionalProperties", Bool(FALSE)),
        "minProperties", ValueFromUsize(1)),
        "title", String("Generated Object Schema")),
        "description", String("Auto-generated schema from JSON data"))

\* The tier's closing match of generate_object_schema (generators.rs 45-60).
object_tier_fields(schema, t) ==
    CASE t = "Basic" -> schema
      [] t = "Standard" -> IndexSet(schema, "additionalProperties", Bool(TRUE))
      [] t = "Comprehensive" -> object_comprehensive(schema)
      [] t = "Expert" -> object_expert(schema)

generate_object_schema(obj, t) ==
    LET schema0 == Object(MapFrom(<< <<"type", String("object")>>,
                                     <<"properties", Object(MapNew)>> >>))
        schema1 == IF t \in {"Comprehensive", "Expert"}
                   THEN IndexSet(schema0, "$schema",
                            String("https://json-schema.org/draft/2020-12/schema"))
                   ELSE schema0
        looped == object_properties(obj, t,
                    [properties_map |-> MapNew, required_props |-> << >>])
    IN IF looped.tag # "Ok"
       THEN looped
       ELSE LET schema2 == IndexSet(schema1, "properties",
                                Object(looped.val.properties_map))
                schema3 == IF looped.val.required_props # << >>
                           THEN IndexSet(schema2, "required",
                                    Array(looped.val.required_props))
                           ELSE schema2
            IN Ok(object_tier_fields(schema3, t))

\* `for item in arr { item_schemas.push(generate_schema(item, tier)?) }`
\* (generators.rs 84-88).
array_item_schemas(arr, t, item_schemas) ==
    IF arr = << >>
    THEN Ok(item_schemas)
    ELSE LET item_schema == generate_schema(Head(arr), t)
         IN IF item_schema.tag # "Ok"
            THEN item_schema
            ELSE array_item_schemas(Tail(arr), t,
                                    Append(item_schemas, item_schema.val))

\* The `items` of a non-empty array, taken from the last element of a
\* homogeneous array.
array_items_from_last(arr, t) ==
    IF is_homogeneous_array(arr)
    THEN generate_schema(arr[Len(arr)], t)
    ELSE LET item_schemas == array_item_schemas(arr, t, << >>)
         IN IF item_schemas.tag # "Ok"
            THEN item_schemas
            ELSE Ok(Object(MapFrom(<< <<"oneOf", Array(item_schemas.val)>> >>)))

\* The `items` of a non-empty array (generators.rs 80-90).
array_items(arr, t) ==
    IF is_homogeneous_array(arr)
    THEN generate_schema(arr[1], t)
    ELSE LET item_schemas == array_item_schemas(arr, t, << >>)
         IN IF item_schemas.tag # "Ok"
            THEN item_schemas
            ELSE Ok(Object(MapFrom(<< <<"oneOf", Array(item_schemas.val)>> >>)))

\* The Comprehensive arm of the closing match, with maxItems = len.
array_comprehensive_undoubled(schema, arr) ==
    IF arr # << >>
    THEN IndexSet(IndexSet(schema, "minItems", ValueFromUsize(1)),
                  "maxItems", ValueFromUsize(Len(arr)))
    ELSE schema

\* The Comprehensive arm of the closing match (generators.rs 99-104).
array_comprehensive(schema, arr) ==
    IF arr # << >>
    THEN IndexSet(IndexSet(schema, "minItems", ValueFromUsize(1)),
                  "maxItems", ValueFromUsize(Len(arr) * 2))
    ELSE schema

\* The Expert arm of the closing match, with uniqueItems set only when the
\* elements are pairwise different.
array_expert_if_distinct(schema, arr) ==
    IF arr # << >>
    THEN LET counted == IndexSet(IndexSet(schema,
                            "minItems", ValueFromUsize(1)),
                            "maxItems", ValueFromUsize(Len(arr) * 2))
             unique == IF \A i, j \in 1..Len(arr) : i # j => arr[i] # arr[j]
                       THEN IndexSet(counted, "uniqueItems", Bool(TRUE))
                       ELSE counted
         IN IndexSet(IndexSet(unique,
                "title", String("Generated Array Schema")),
                "description", String("Auto-generated array schema from JSON data"))
    ELSE schema

\* The Expert arm of the closing match (generators.rs 105-113).
array_expert(schema, arr) ==
    IF arr # << >>
    THEN IndexSet(IndexSet(IndexSet(IndexSet(IndexSet(schema,
            "minItems", ValueFromUsize(1)),
            "maxItems", ValueFromUsize(Len(arr) * 2)),
            "uniqueItems", Bool(TRUE)),
            "title", String("Generated Array Schema")),
            "description", String("Auto-generated array schema from JSON data"))
    ELSE schema

\* The tier's closing match of generate_array_schema (generators.rs 92-114).
array_tier_fields(schema, arr, t) ==
    CASE t = "Basic" -> schema
      [] t = "Standard" ->
            IF arr # << >>
            THEN IndexSet(schema, "minItems", ValueFromUsize(0))
            ELSE schema
      [] t = "Comprehensive" -> array_comprehensive(schema, arr)
      [] t = "Expert" -> array_expert(schema, arr)

\* generate_array_schema whose early return for the empty array leaves out
\* the items field.
generate_array_schema_no_items(arr, t) ==
    IF arr = << >>
    THEN Ok(Object(MapFrom(<< <<"type", String("array")>> >>)))
    ELSE LET schema0 == Object(MapFrom(<< <<"type", String("array")>> >>))
             items == array_items(arr, t)
         IN IF items.tag # "Ok"
            THEN items
            ELSE Ok(array_tier_fields(IndexSet(schema0, "items", items.val),
                                      arr, t))

generate_array_schema(arr, t) ==
    IF arr = << >>
    THEN Ok(Object(MapFrom(<< <<"type", String("array")>>,
                              <<"items", Object(MapNew)>> >>)))
    ELSE LET schema0 == Object(MapFrom(<< <<"type", String("array")>> >>))
             items == array_items(arr, t)
         IN IF items.tag # "Ok"
            THEN items
            ELSE Ok(array_tier_fields(IndexSet(schema0, "items", items.val),
                                      arr, t))

\* The Comprehensive arm of generate_string_schema (generators.rs 128-134).
string_comprehensive(schema, s) ==
    LET schema1 == IndexSet(IndexSet(schema, "minLength", ValueFromUsize(0)),
                            "maxLength", ValueFromUsize(StrLen(s) * 2))
    IN IF ~StrIsEmpty(s)
       THEN IndexSet(schema1, "examples", Array(<<String(s)>>))
       ELSE schema1

\* format, else pattern, of a non-empty string (generators.rs 141-145).
string_format_or_pattern(schema, s) ==
    IF detect_string_format(s).some
    THEN IndexSet(schema, "format", String(detect_string_format(s).v))
    ELSE IF detect_string_pattern(s).some
    THEN IndexSet(schema, "pattern", String(detect_string_pattern(s).v))
    ELSE schema

\* The string schema without its type at Basic.
generate_string_schema_untyped(val, t) ==
    IF t = "Basic"
    THEN Ok(Object(MapNew))
    ELSE Ok(IndexSet(Object(MapFrom(<< <<"type", String("string")>> >>)),
                     "minLength", ValueFromUsize(0)))

generate_string_schema(val, t) ==
    LET schema == Object(MapFrom(<< <<"type", String("string")>> >>))
    IN IF val.kind # "string"
       THEN Ok(schema)
       ELSE LET s == val.s
            IN CASE t = "Basic" -> Ok(schema)
                 [] t = "Standard" ->
                        Ok(IndexSet(schema, "minLength", ValueFromUsize(0)))
                 [] t = "Comprehensive" -> Ok(string_comprehensive(schema, s))
                 [] t = "Expert" ->
                        LET schema1 == string_comprehensive(schema, s)
                            schema2 == IF ~StrIsEmpty(s)
                                       THEN string_format_or_pattern(schema1, s)
                                       ELSE schema1
                        IN Ok(IndexSet(schema2, "title",
                                       String("Generated String Schema")))

\* examples, minimum, maximum of an integer (generators.rs 174-177 and
\* 185-188): n_val - 1000 is evaluated before n_val + 1000.
integer_bounds(schema, n_val) ==
    LET schema1 == IndexSet(schema, "examples", Array(<<ValueFromI64(n_val)>>))
        minimum == I64Add(n_val, -1000)
        maximum == I64Add(n_val, 1000)
    IN IF minimum.tag # "Ok" THEN minimum
       ELSE IF maximum.tag # "Ok" THEN maximum
       ELSE Ok(IndexSet(IndexSet(schema1,
                   "minimum", ValueFromI64(minimum.val)),
                   "maximum", ValueFromI64(maximum.val)))

\* examples, minimum, maximum of a float (generators.rs 178-181 and 191-194).
float_bounds(schema, n_val) ==
    IndexSet(IndexSet(IndexSet(schema,
        "examples", Array(<<ValueFromF64(n_val)>>)),
        "minimum", ValueFromF64(F64Add(n_val, -1000))),
        "maximum", ValueFromF64(F64Add(n_val, 1000)))

generate_number_schema(n, t) ==
    LET schema == IF is_i64(n) \/ is_u64(n)
                  THEN IndexSet(Object(MapNew), "type", String("integer"))
                  ELSE IndexSet(Object(MapNew), "type", String("number"))
    IN CASE t = "Basic" -> Ok(schema)
         [] t = "Standard" ->
                IF as_i64(n).some
                THEN Ok(IndexSet(schema, "minimum", ValueFromI64(as_i64(n).v)))
                ELSE IF as_f64(n).some
                THEN Ok(IndexSet(schema, "minimum", ValueFromF64(as_f64(n).v)))
                ELSE Ok(schema)
         [] t = "Comprehensive" ->
                IF as_i64(n).some
                THEN integer_bounds(schema, as_i64(n).v)
                ELSE IF as_f64(n).some
                THEN Ok(float_bounds(schema, as_f64(n).v))
                ELSE Ok(schema)
         [] t = "Expert" ->
                IF as_i64(n).some
                THEN LET bounded == integer_bounds(schema, as_i64(n).v)
                     IN IF bounded.tag # "Ok" THEN bounded
                        ELSE Ok(IndexSet(IndexSet(bounded.val,
                                    "multipleOf", ValueFromI64([a |-> "0", d |-> 1])),
                                    "title", String("Generated Integer Schema")))
                ELSE IF as_f64(n).some
                THEN Ok(IndexSet(float_bounds(schema, as_f64(n).v),
                                 "title", String("Generated Number Schema")))
                ELSE Ok(schema)

\* The boolean schema with the Standard tier giving examples as well.
generate_boolean_schema_standard_examples(val, t) ==
    LET schema == Object(MapFrom(<< <<"type", String("boolean")>> >>))
    IN IF t = "Basic"
       THEN Ok(schema)
       ELSE Ok(IndexSet(schema, "examples", Array(<<Bool(val.b)>>)))

generate_boolean_schema(val, t) ==
    LET schema == Object(MapFrom(<< <<"type", String("boolean")>> >>))
    IN IF val.kind # "boolean"
       THEN Ok(schema)
       ELSE CASE t \in {"Basic", "Standard"} -> Ok(schema)
              [] t = "Comprehensive" ->
                    Ok(IndexSet(schema, "examples", Array(<<Bool(val.b)>>)))
              [] t = "Expert" ->
                    Ok(IndexSet(IndexSet(IndexSet(schema,
                        "examples", Array(<<Bool(val.b)>>)),
                        "title", String("Generated Boolean Schema")),
                        "description", String("Boolean value from JSON data")))

\* The null schema with a title added.
generate_null_schema_titled ==
    Ok(Object(MapFrom(<< <<"type", String("null")>>,
                         <<"title", String("Generated Null Schema")>> >>)))

generate_null_schema == Ok(Object(MapFrom(<< <<"type", String("null")>> >>)))

generate_schema(val, t) ==
    CASE val.kind = "object" -> generate_object_schema(val.map, t)
      [] val.kind = "array" -> generate_array_schema(val.elems, t)
      [] val.kind = "string" -> generate_string_schema(val, t)
      [] val.kind = "number" -> generate_number_schema(val.n, t)
      [] val.kind = "boolean" -> generate_boolean_schema(val, t)
      [] val.kind = "null" -> generate_null_schema

(***************************************************************************)
(* src/src/schema.rs: the single-file implementation, its functions under  *)
(* their names with the prefix schema_rs_.                                 *)
(***************************************************************************)
RECURSIVE schema_rs_generate_schema(_, _)
RECURSIVE schema_rs_object_properties(_, _, _)
RECURSIVE schema_rs_array_item_schemas(_, _, _)

\* `for (key, value) in obj { ... }` (schema.rs 178-197).
schema_rs_object_properties(entries, t, acc) ==
    IF entries = << >>
    THEN Ok(acc)
    ELSE LET key == Head(entries)[1]
             val == Head(entries)[2]
             property_schema == schema_rs_generate_schema(val, t)
             pushed == Append(acc.required_props, String(key))
         IN IF property_schema.tag # "Ok"
            THEN property_schema
            ELSE schema_rs_object_properties(
                    Tail(entries), t,
                    [properties_map |->
                        MapInsert(acc.properties_map, key, property_schema.val),
                     required_props |->
                        CASE t = "Basic" -> acc.required_props
                          [] t = "Standard" ->
                                IF ~is_null(val) THEN pushed ELSE acc.required_props
                          [] t \in {"Comprehensive", "Expert"} -> pushed])

schema_rs_generate_object_schema(obj, t) ==
    LET schema0 == Object(MapFrom(<< <<"type", String("object")>>,
                                     <<"properties", Object(MapNew)>> >>))
        schema1 == IF t \in {"Comprehensive", "Expert"}
                   THEN IndexSet(schema0, "$schema",
                            String("https://json-schema.org/draft/2020-12/schema"))
                   ELSE schema0
        looped == schema_rs_object_properties(obj, t,
                    [properties_map |-> MapNew, required_props |-> << >>])
    IN IF looped.tag # "Ok"
       THEN looped
       ELSE LET schema2 == IndexSet(schema1, "properties",
                                Object(looped.val.properties_map))
                schema3 == IF looped.val.required_props # << >>
                           THEN IndexSet(schema2, "required",
                                    Array(looped.val.required_props))
                           ELSE schema2
                strict == IndexSet(IndexSet(schema3,
                            "additionalProperties", Bool(FALSE)),
                            "minProperties", ValueFromUsize(1))
            IN CASE t = "Basic" -> Ok(schema3)
                 [] t = "Standard" ->
                        Ok(IndexSet(schema3, "additionalProperties", Bool(TRUE)))
                 [] t = "Comprehensive" -> Ok(strict)
                 [] t = "Expert" ->
                        Ok(IndexSet(IndexSet(strict,
                            "title", String("Generated Object Schema")),
                            "description",
                            String("Auto-generated schema from JSON data")))

\* `for item in arr { ... item_schemas.push(item_schema) }` (schema.rs 268-271).
schema_rs_array_item_schemas(arr, t, item_schemas) ==
    IF arr = << >>
    THEN Ok(item_schemas)
    ELSE LET item_schema == schema_rs_generate_schema(Head(arr), t)
         IN IF item_schema.tag # "Ok"
            THEN item_schema
            ELSE schema_rs_array_item_schemas(Tail(arr), t,
                                              Append(item_schemas, item_schema.val))

\* The HashSet of kind names collected inline (schema.rs 246-255).
schema_rs_item_types(arr) == {arr[i].kind : i \in 1..Len(arr)}

schema_rs_generate_array_schema(arr, t) ==
    IF arr = << >>
    THEN Ok(Object(MapFrom(<< <<"type", String("array")>>,
                              <<"items", Object(MapNew)>> >>)))
    ELSE LET schema0 == Object(MapFrom(<< <<"type", String("array")>> >>))
             item_schemas == schema_rs_array_item_schemas(arr, t, << >>)
             items == IF Cardinality(schema_rs_item_types(arr)) = 1
                      THEN schema_rs_generate_schema(arr[1], t)
                      ELSE IF item_schemas.tag # "Ok"
                      THEN item_schemas
                      ELSE Ok(Object(MapFrom(
                                << <<"oneOf", Array(item_schemas.val)>> >>)))
         IN IF items.tag # "Ok"
            THEN items
            ELSE LET schema1 == IndexSet(schema0, "items", items.val)
                     counted == IndexSet(IndexSet(schema1,
                                    "minItems", ValueFromUsize(1)),
                                    "maxItems", ValueFromUsize(Len(arr) * 2))
                 IN CASE t = "Basic" -> Ok(schema1)
                      [] t = "Standard" ->
                            Ok(IndexSet(schema1, "minItems", ValueFromUsize(0)))
                      [] t = "Comprehensive" -> Ok(counted)
                      [] t = "Expert" ->
                            Ok(IndexSet(IndexSet(IndexSet(counted,
                                "uniqueItems", Bool(TRUE)),
                                "title", String("Generated Array Schema")),
                                "description",
                                String("Auto-generated array schema from JSON data")))

schema_rs_generate_string_schema(val, t) ==
    LET schema == Object(MapFrom(<< <<"type", String("string")>> >>))
        s == val.s
        sized == IndexSet(IndexSet(schema, "minLength", ValueFromUsize(0)),
                          "maxLength", ValueFromUsize(StrLen(s) * 2))
        shown == IndexSet(sized, "examples", Array(<<String(s)>>))
    IN IF val.kind # "string"
       THEN Ok(schema)
       ELSE CASE t = "Basic" -> Ok(schema)
              [] t = "Standard" ->
                    Ok(IndexSet(schema, "minLength", ValueFromUsize(0)))
              [] t = "Comprehensive" ->
                    IF ~StrIsEmpty(s) THEN Ok(shown) ELSE Ok(sized)
              [] t = "Expert" ->
                    LET detected ==
                            IF StrContains(s, "@") /\ StrContains(s, ".")
                            THEN IndexSet(shown, "format", String("email"))
                            ELSE IF StrStartsWith(s, "http")
                            THEN IndexSet(shown, "format", String("uri"))
                            ELSE IF AllDigitDashSpace(s)
                            THEN IndexSet(shown, "pattern", String("^[\\d\\-\\s]+$"))
                            ELSE shown
                    IN Ok(IndexSet(IF ~StrIsEmpty(s) THEN detected ELSE sized,
                                   "title", String("Generated String Schema")))

schema_rs_generate_number_schema(n, t) ==
    LET schema == IF is_i64(n) \/ is_u64(n)
                  THEN IndexSet(Object(MapNew), "type", String("integer"))
                  ELSE IndexSet(Object(MapNew), "type", String("number"))
        minimum == I64Add(as_i64(n).v, -1000)
        maximum == I64Add(as_i64(n).v, 1000)
        integer == IF minimum.tag # "Ok" THEN minimum
                   ELSE IF maximum.tag # "Ok" THEN maximum
                   ELSE Ok(IndexSet(IndexSet(IndexSet(schema,
                            "examples", Array(<<ValueFromI64(as_i64(n).v)>>)),
                            "minimum", ValueFromI64(minimum.val)),
                            "maximum", ValueFromI64(maximum.val)))
        float == IndexSet(IndexSet(IndexSet(schema,
                    "examples", Array(<<ValueFromF64(as_f64(n).v)>>)),
                    "minimum", ValueFromF64(F64Add(as_f64(n).v, -1000))),
                    "maximum", ValueFromF64(F64Add(as_f64(n).v, 1000)))
    IN CASE t = "Basic" -> Ok(schema)
         [] t = "Standard" ->
                IF as_i64(n).some
                THEN Ok(IndexSet(schema, "minimum", ValueFromI64(as_i64(n).v)))
                ELSE IF as_f64(n).some
                THEN Ok(IndexSet(schema, "minimum", ValueFromF64(as_f64(n).v)))
                ELSE Ok(schema)
         [] t = "Comprehensive" ->
                IF as_i64(n).some THEN integer
                ELSE IF as_f64(n).some THEN Ok(float)
                ELSE Ok(schema)
         [] t = "Expert" ->
                IF as_i64(n).some
                THEN IF integer.tag # "Ok" THEN integer
                     ELSE Ok(IndexSet(IndexSet(integer.val,
                                "multipleOf", ValueFromI64([a |-> "0", d |-> 1])),
                                "title", String("Generated Integer Schema")))
                ELSE IF as_f64(n).some
                THEN Ok(IndexSet(float, "title", String("Generated Number Schema")))
                ELSE Ok(schema)

schema_rs_generate_boolean_schema(val, t) ==
    LET schema == Object(MapFrom(<< <<"type", String("boolean")>> >>))
        shown == IndexSet(schema, "examples", Array(<<Bool(val.b)>>))
    IN IF val.kind # "boolean"
       THEN Ok(schema)
       ELSE CASE t \in {"Basic", "Standard"} -> Ok(schema)
              [] t = "Comprehensive" -> Ok(shown)
              [] t = "Expert" ->
                    Ok(IndexSet(IndexSet(shown,
                        "title", String("Generated Boolean Schema")),
                        "description", String("Boolean value from JSON data")))

schema_rs_generate_null_schema ==
    Ok(Object(MapFrom(<< <<"type", String("null")>> >>)))

schema_rs_generate_schema(val, t) ==
    CASE val.kind = "object" -> schema_rs_generate_object_schema(val.map, t)
      [] val.kind = "array" -> schema_rs_generate_array_schema(val.elems, t)
      [] val.kind = "string" -> schema_rs_generate_string_schema(val, t)
      [] val.kind = "number" -> schema_rs_generate_number_schema(val.n, t)
      [] val.kind = "boolean" -> schema_rs_generate_boolean_schema(val, t)
      [] val.kind = "null" -> schema_rs_generate_null_schema

(***************************************************************************)
(* Input values.  Every object is a Map of the build (MapFrom), so in a    *)
(* BTreeMap build its entries are in key order.                            *)
(***************************************************************************)
Integer(k) == Number(NumberFromI64([a |-> "0", d |-> k]))
I64Min(k) == Number(NegInt([a |-> "-2^63", d |-> k]))       \* i64::MIN + k
I64Max(k) == Number(PosInt([a |-> "2^63", d |-> -1 - k]))   \* i64::MAX - k
U64Above(k) == Number(PosInt([a |-> "2^63", d |-> k]))      \* i64::MAX + 1 + k
U64Max(k) == Number(PosInt([a |-> "2^64", d |-> -1 - k]))   \* u64::MAX - k
Halves(k) == Number(Float([a |-> "0", d |-> k \div 2, half |-> k % 2]))  \* k / 2

Obj(pairs) == Object(MapFrom(pairs))

Scalars ==
    { Null, Bool(TRUE), Bool(FALSE),
      Integer(1), Integer(42), Integer(-7), Integer(0),
      I64Min(0), I64Min(5), I64Min(1000), I64Max(0), I64Max(5), I64Max(1000),
      U64Above(0), U64Above(5), U64Max(0),
      Halves(5), Halves(85), Halves(2),
      String(""), String("ab"), String("a@b.c"), String("http"),
      String("12"), String("1-2 3"), String("né"),
      String("http://a@b.c"), String("1@2.3"), String("a b") }

\* Elements of the input arrays: every kind, two numbers of different
\* variants, two objects of different key sets.
Elems ==
    { Null, Bool(TRUE), Integer(1), Halves(5), String("ab"),
      Array(<<Integer(1)>>), Obj(<< <<"a", Integer(1)>> >>), Obj(<< <<"b", Null>> >>) }

\* Values of the input objects' entries.
EntryValues ==
    { Null, Integer(1), String("ab"), Obj(<< <<"a", Null>> >>) }

KeyPool == <<"a", "b", "c", "d">>

Keys == {KeyPool[i] : i \in 1..MaxKeys}

Arrays == {Array(xs) : xs \in UNION {[1..k -> Elems] : k \in 0..MaxLen}}

\* Sequences of distinct keys, each key with a value.
EntryLists ==
    UNION {{ps \in [1..k -> Keys \X EntryValues] :
                \A i, j \in 1..k : i # j => ps[i][1] # ps[j][1]} : k \in 0..MaxKeys}

Objects == {Obj(ps) : ps \in EntryLists}

\* Deeper trees: containers around the values where the tiers and the
\* integer bounds differ, and the object of the repository's tests.
Seeds ==
    { I64Min(5), I64Max(5), Integer(42),
      Array(<< >>), Obj(<< >>),
      Array(<<Integer(1), String("ab"), Integer(1)>>),
      Obj(<< <<"b", Integer(1)>>, <<"a", Null>> >>),
      Obj(<< <<"name", String("John")>>, <<"age", Integer(30)>>,
             <<"is_active", Bool(TRUE)>> >>) }

Wrap(S) == {Array(<<v>>) : v \in S} \cup {Obj(<< <<"a", v>> >>) : v \in S}

InputValues == Scalars \cup Arrays \cup Objects \cup Seeds \cup Wrap(Seeds) \cup Wrap(Wrap(Seeds))

(***************************************************************************)
(* The run: one call of generate_schema(&value, &tier).                    *)
(***************************************************************************)
NotCalled == [tag |-> "NotCalled"]

\* The command-line program is not part of a run of the library call.
CliIdle ==
    /\ files = << >>
    /\ args = << >>
    /\ input = << >>
    /\ json_content = ""
    /\ todo = << >>
    /\ processed = 0
    /\ errors = << >>
    /\ ret = NotCalled
    /\ run = NotCalled
    /\ matched = << >>
    /\ entry_files = << >>
    /\ outputs = << >>

Init ==
    /\ CliIdle
    /\ overflow_checks \in BOOLEAN
    /\ preserve_order \in BOOLEAN
    /\ value \in InputValues
    /\ tier \in SchemaOutputTier
    /\ pc = "call"
    /\ result = NotCalled

GenerateSchema ==
    /\ pc = "call"
    /\ result' = generate_schema(value, tier)
    /\ pc' = "done"
    /\ UNCHANGED <<overflow_checks, preserve_order, value, tier>>
    /\ UNCHANGED vars_cli

Next == GenerateSchema

Spec == Init /\ [][Next]_vars

(***************************************************************************)
(* Properties.  Returned is the state after a call that gave back a schema *)
(* document; the properties of the document's fields are stated of every   *)
(* such state (whether a call gives one back at all is C1).                *)
(***************************************************************************)
Called == pc = "done"

Returned == pc = "done" /\ result.tag = "Ok"

Schema == result.val

ReturnedArray == Returned /\ value.kind = "array" /\ value.elems # << >>

ReturnedObject == Returned /\ value.kind = "object"

\* C1: for every value tree and every tier the call returns a schema
\* document; it neither fails nor aborts, numbers at the ends of the i64
\* range included.
C1_Total == Called => result.tag = "Ok"

\* All elements carry one top-level kind tag.
OneKind(arr) == \A i, j \in 1..Len(arr) : arr[i].kind = arr[j].kind

\* C2: for a non-empty array, items is a single schema without oneOf iff all
\* elements share one kind tag; otherwise items.oneOf lists the schema of
\* every element at the same tier, one per element, in the array's order,
\* equal schemas kept.
C2_ItemsShape ==
    ReturnedArray =>
        LET arr == value.elems
            items == IndexGet(Schema, "items")
        IN /\ HasField(Schema, "items")
           /\ OneKind(arr) <=> ~HasField(items, "oneOf")
           /\ OneKind(arr) => HasField(items, "type")
           /\ ~OneKind(arr) =>
                /\ FieldNames(items) = {"oneOf"}
                /\ IndexGet(items, "oneOf").kind = "array"
                /\ Len(IndexGet(items, "oneOf").elems) = Len(arr)
                /\ \A i \in 1..Len(arr) :
                      IndexGet(items, "oneOf").elems[i] = generate_schema(arr[i], tier).val

\* A heterogeneous array with two equal element schemas has been processed:
\* oneOf has three entries, the first and the third equal.
C2_Witness ==
    /\ ReturnedArray
    /\ value.elems = <<Integer(1), String("ab"), Integer(1)>>
    /\ Len(IndexGet(IndexGet(Schema, "items"), "oneOf").elems) = 3
    /\ IndexGet(IndexGet(Schema, "items"), "oneOf").elems[1]
         = IndexGet(IndexGet(Schema, "items"), "oneOf").elems[3]

\* The elements of Elems that carry the kind tag of v.
SameKind(v) == {e \in Elems : e.kind = v.kind}

\* The arrays of the input space that begin with `first` and continue with
\* elements of its kind.
Continuations(first) ==
    {<<first>> \o tl : tl \in UNION {[1..k -> SameKind(first)] : k \in 0..(MaxLen - 1)}}

\* C3: for a homogeneous non-empty array, items is the schema of the first
\* element and of nothing else: every array of the same kind tag and the
\* same first element gets the same items.
C3_FirstElementOnly ==
    (ReturnedArray /\ OneKind(value.elems)) =>
        /\ Ok(IndexGet(Schema, "items")) = generate_schema(value.elems[1], tier)
        /\ \A other \in Continuations(value.elems[1]) :
              /\ generate_schema(Array(other), tier).tag = "Ok"
              /\ IndexGet(generate_schema(Array(other), tier).val, "items")
                    = IndexGet(Schema, "items")

\* An array of two objects with different key sets has been processed, and
\* its items describes the first object's key only.
C3_Witness ==
    /\ ReturnedArray
    /\ value.elems = <<Obj(<< <<"a", Integer(1)>> >>), Obj(<< <<"b", Null>> >>)>>
    /\ MapKeys(IndexGet(IndexGet(Schema, "items"), "properties").map) = <<"a">>

\* C4: the schema of an empty array is {"type":"array","items":{}} at every
\* tier, with no other field.
C4_EmptyArray ==
    (Called /\ value = Array(<< >>)) =>
        /\ result.tag = "Ok"
        /\ FieldNames(Schema) = {"type", "items"}
        /\ IndexGet(Schema, "type") = String("array")
        /\ IndexGet(Schema, "items") = Object(MapNew)

\* The empty array has been processed at Expert, the tier that adds most.
C4_Witness ==
    /\ Returned
    /\ value = Array(<< >>)
    /\ tier = "Expert"
    /\ Len(Schema.map) = 2

\* C5: for a non-empty array of length n, Basic sets neither minItems nor
\* maxItems, Standard sets minItems = 0 and no maxItems, Comprehensive and
\* Expert set minItems = 1 and maxItems = 2n.
C5_ItemCounts ==
    ReturnedArray =>
        LET n == Len(value.elems)
        IN /\ tier = "Basic" =>
                ~HasField(Schema, "minItems") /\ ~HasField(Schema, "maxItems")
           /\ tier = "Standard" =>
                /\ HasField(Schema, "minItems")
                /\ IndexGet(Schema, "minItems") = Integer(0)
                /\ ~HasField(Schema, "maxItems")
           /\ tier \in {"Comprehensive", "Expert"} =>
                /\ HasField(Schema, "minItems")
                /\ IndexGet(Schema, "minItems") = Integer(1)
                /\ HasField(Schema, "maxItems")
                /\ IndexGet(Schema, "maxItems") = Integer(2 * n)

\* An array of the greatest length has been processed at Comprehensive.
C5_Witness ==
    /\ ReturnedArray
    /\ tier = "Comprehensive"
    /\ Len(value.elems) = MaxLen
    /\ IndexGet(Schema, "maxItems") = Integer(2 * MaxLen)

\* C6: the schema of a non-empty array has uniqueItems = true iff the tier
\* is Expert, whatever the elements; below Expert the field is absent.
C6_UniqueItems ==
    ReturnedArray =>
        /\ tier = "Expert" <=> HasField(Schema, "uniqueItems")
        /\ tier = "Expert" <=> IndexGet(Schema, "uniqueItems") = Bool(TRUE)

\* [1, 1] has been processed at Expert and is declared to hold unique items.
C6_Witness ==
    /\ ReturnedArray
    /\ tier = "Expert"
    /\ value.elems = <<Integer(1), Integer(1)>>
    /\ IndexGet(Schema, "uniqueItems") = Bool(TRUE)

\* The keys the tier requires, in the order of the input object's entries.
RequiredKeys(m, t) ==
    CASE t = "Basic" -> << >>
      [] t = "Standard" -> MapKeys(SelectSeq(m, LAMBDA e : e[2] # Null))
      [] OTHER -> MapKeys(m)

\* C7: required lists nothing at Basic, the keys of the non-null values at
\* Standard, all keys at Comprehensive and Expert, in input key order; the
\* field is present only when the list is not empty.
C7_Required ==
    ReturnedObject =>
        LET keys == RequiredKeys(value.map, tier)
        IN /\ HasField(Schema, "required") <=> keys # << >>
           /\ HasField(Schema, "required") =>
                /\ IndexGet(Schema, "required").kind = "array"
                /\ IndexGet(Schema, "required").elems
                      = [i \in 1..Len(keys) |-> String(keys[i])]

\* An object with a null and a non-null value has been processed at
\* Standard: only the non-null key is required.
C7_Witness ==
    /\ ReturnedObject
    /\ tier = "Standard"
    /\ MapHas(value.map, "a") /\ MapGet(value.map, "a") = Null
    /\ MapHas(value.map, "b") /\ MapGet(value.map, "b") = Integer(1)
    /\ IndexGet(Schema, "required") = Array(<<String("b")>>)

\* C8: an object schema has none of additionalProperties, minProperties,
\* $schema at Basic; additionalProperties = true only at Standard;
\* additionalProperties = false, minProperties = 1 and the draft 2020-12
\* $schema at Comprehensive and Expert, for the empty object too; title and
\* description at Expert alone.
C8_ObjectTierFields ==
    ReturnedObject =>
        /\ tier = "Basic" =>
              /\ ~HasField(Schema, "additionalProperties")
              /\ ~HasField(Schema, "minProperties")
              /\ ~HasField(Schema, "$schema")
        /\ tier = "Standard" =>
              /\ IndexGet(Schema, "additionalProperties") = Bool(TRUE)
              /\ ~HasField(Schema, "minProperties")
              /\ ~HasField(Schema, "$schema")
        /\ tier \in {"Comprehensive", "Expert"} =>
              /\ IndexGet(Schema, "additionalProperties") = Bool(FALSE)
              /\ IndexGet(Schema, "minProperties") = Integer(1)
              /\ IndexGet(Schema, "$schema")
                    = String("https://json-schema.org/draft/2020-12/schema")
        /\ tier = "Expert" <=> HasField(Schema, "title")
        /\ tier = "Expert" <=> HasField(Schema, "description")

\* The empty object has been processed at Comprehensive and got
\* minProperties = 1.
C8_Witness ==
    /\ ReturnedObject
    /\ value.map = << >>
    /\ tier = "Comprehensive"
    /\ IndexGet(Schema, "minProperties") = Integer(1)

\* C9: properties has the input object's keys, in the order in which the
\* input object yields them, each with the schema of its value at the
\* call's tier.
C9_Properties ==
    ReturnedObject =>
        LET properties == IndexGet(Schema, "properties")
        IN /\ HasField(Schema, "properties")
           /\ properties.kind = "object"
           /\ MapKeys(properties.map) = MapKeys(value.map)
           /\ \A i \in 1..Len(value.map) :
                 Ok(properties.map[i][2]) = generate_schema(value.map[i][2], tier)

\* An object of two keys has been processed in a build that keeps insertion
\* order, the later key of the alphabet first.
C9_Witness ==
    /\ ReturnedObject
    /\ preserve_order
    /\ MapKeys(value.map) = <<"b", "a">>
    /\ MapKeys(IndexGet(Schema, "properties").map) = <<"b", "a">>

StricterTier(t) ==
    CASE t = "Basic" -> "Standard"
      [] t = "Standard" -> "Comprehensive"
      [] t = "Comprehensive" -> "Expert"

\* C10: for an object and a tier below Expert, every field name of the
\* schema at the tier is a field name of the schema at the next stricter
\* tier.
C10_Monotonic ==
    (ReturnedObject /\ tier # "Expert"
        /\ generate_schema(value, StricterTier(tier)).tag = "Ok") =>
        FieldNames(Schema)
            \subseteq FieldNames(generate_schema(value, StricterTier(tier)).val)

\* An object with a non-null value has been processed at Standard, where
\* required and additionalProperties are present, and Comprehensive keeps
\* both.
C10_Witness ==
    /\ ReturnedObject
    /\ tier = "Standard"
    /\ {"required", "additionalProperties"} \subseteq FieldNames(Schema)
    /\ generate_schema(value, "Comprehensive").tag = "Ok"
    /\ {"required", "additionalProperties"}
          \subseteq FieldNames(generate_schema(value, "Comprehensive").val)

ReturnedString == Returned /\ value.kind = "string"

\* The email test and the uri test of the format detection.
LooksEmail(s) == StrContains(s, "@") /\ StrContains(s, ".")

LooksUri(s) == StrStartsWith(s, "http")

\* C11: a string schema never has both format and pattern; below Expert it
\* has neither; at Expert the email test comes first, then the uri test,
\* then the digit pattern: format is "email" exactly for the strings with
\* '@' and '.', "uri" exactly for the others that start with "http", and a
\* pattern is given only to a string that passed neither test.
C11_FormatPriority ==
    ReturnedString =>
        LET s == value.s
        IN /\ ~(HasField(Schema, "format") /\ HasField(Schema, "pattern"))
           /\ tier # "Expert" =>
                ~HasField(Schema, "format") /\ ~HasField(Schema, "pattern")
           /\ tier = "Expert" =>
                /\ LooksEmail(s) <=> IndexGet(Schema, "format") = String("email")
                /\ (~LooksEmail(s) /\ LooksUri(s))
                      <=> IndexGet(Schema, "format") = String("uri")
                /\ HasField(Schema, "format") =>
                      IndexGet(Schema, "format") \in {String("email"), String("uri")}
                /\ HasField(Schema, "pattern") =>
                      ~LooksEmail(s) /\ ~LooksUri(s) /\ AllDigitDashSpace(s)

\* "http://a@b.c", which passes the email and the uri test, has been
\* processed at Expert and got format email.
C11_Witness ==
    /\ ReturnedString
    /\ tier = "Expert"
    /\ value.s = "http://a@b.c"
    /\ IndexGet(Schema, "format") = String("email")
    /\ ~HasField(Schema, "pattern")

\* C12 as claimed: at Expert, a string that is neither email nor uri has the
\* digit/dash/space pattern iff all its characters are ASCII digits, '-' or
\* space, the empty string included.
C12_PatternIffAllDigits ==
    (ReturnedString /\ tier = "Expert"
        /\ ~LooksEmail(value.s) /\ ~LooksUri(value.s)) =>
        (IndexGet(Schema, "pattern") = String("^[\\d\\-\\s]+$")
            <=> AllDigitDashSpace(value.s))

\* C12 amended: at Expert, a non-empty string that is neither email nor uri
\* has the digit/dash/space pattern iff all its characters are ASCII
\* digits, '-' or space; the empty string has neither format nor pattern.
C12_PatternNonEmpty ==
    (ReturnedString /\ tier = "Expert") =>
        /\ (~StrIsEmpty(value.s) /\ ~LooksEmail(value.s) /\ ~LooksUri(value.s)) =>
              /\ HasField(Schema, "pattern") <=> AllDigitDashSpace(value.s)
              /\ HasField(Schema, "pattern") =>
                    IndexGet(Schema, "pattern") = String("^[\\d\\-\\s]+$")
        /\ StrIsEmpty(value.s) =>
              ~HasField(Schema, "pattern") /\ ~HasField(Schema, "format")

\* "1-2 3" has been processed at Expert and got the pattern.
C12_Witness ==
    /\ ReturnedString
    /\ tier = "Expert"
    /\ value.s = "1-2 3"
    /\ IndexGet(Schema, "pattern") = String("^[\\d\\-\\s]+$")

ReturnedNumber == Returned /\ value.kind = "number"

\* The exact value of a Number, as anchor and offset.
Exact(n) == [a |-> n.a, d |-> n.d, half |-> n.half]

\* The exact value of n + k.
Shifted(n, k) == [a |-> n.a, d |-> n.d + k, half |-> n.half]

\* The value is a whole number of the range i64::MIN .. u64::MAX.
RepresentableAsInt64(n) ==
    /\ n.half = 0
    /\ \/ n.a = "0"
       \/ n.a = "-2^63" /\ n.d >= 0
       \/ n.a = "2^63"
       \/ n.a = "2^64" /\ n.d < 0

\* The Number is held as an integer, not as an f64.
HeldAsInteger(n) == n.rep \in {"PosInt", "NegInt"}

\* C13 as claimed: the type of a number's schema is "integer" iff the value
\* is representable exactly as an i64 or u64, and "number" otherwise, at
\* every tier.
C13_IntegerIffRepresentable ==
    ReturnedNumber =>
        /\ RepresentableAsInt64(value.n) <=> IndexGet(Schema, "type") = String("integer")
        /\ ~RepresentableAsInt64(value.n) <=> IndexGet(Schema, "type") = String("number")

\* C13 amended: the type of a number's schema is "integer" iff the number is
\* held as an i64 or u64 (an integer literal of that range), values above
\* i64::MAX included, and "number" iff it is held as an f64, a float of
\* whole value such as 1.0 included; at every tier.
C13_IntegerIffHeldAsInteger ==
    ReturnedNumber =>
        /\ HeldAsInteger(value.n) <=> IndexGet(Schema, "type") = String("integer")
        /\ ~HeldAsInteger(value.n) <=> IndexGet(Schema, "type") = String("number")

\* A u64 above i64::MAX has been processed and is typed "integer".
C13_Witness ==
    /\ ReturnedNumber
    /\ value = U64Above(5)
    /\ IndexGet(Schema, "type") = String("integer")

\* An i64 within 1000 of i64::MIN or i64::MAX: v - 1000 or v + 1000 is not
\* an i64.
NearI64Limit(n) ==
    /\ as_i64(n).some
    /\ \/ ~InI64([a |-> n.a, d |-> n.d - 1000])
       \/ ~InI64([a |-> n.a, d |-> n.d + 1000])

\* C14: at Comprehensive and Expert a number v has examples = [v],
\* minimum = v - 1000 and maximum = v + 1000, held as integers when v is
\* held as an integer, unsigned values above i64::MAX included, and as
\* floats when v is a float.  (The i64 values whose bounds leave the i64
\* range are the case of C15.)
C14_Bounds ==
    (ReturnedNumber /\ tier \in {"Comprehensive", "Expert"}
        /\ ~NearI64Limit(value.n)) =>
        LET examples == IndexGet(Schema, "examples")
            minimum == IndexGet(Schema, "minimum")
            maximum == IndexGet(Schema, "maximum")
        IN /\ examples = Array(<<value>>)
           /\ minimum.kind = "number"
           /\ maximum.kind = "number"
           /\ HeldAsInteger(minimum.n) <=> HeldAsInteger(value.n)
           /\ HeldAsInteger(maximum.n) <=> HeldAsInteger(value.n)
           /\ Exact(minimum.n) = Shifted(value.n, -1000)
           /\ Exact(maximum.n) = Shifted(value.n, 1000)

\* The order of the exact values.
AnchorRank(a) ==
    CASE a = "-2^63" -> 1
      [] a = "0" -> 2
      [] a = "2^63" -> 3
      [] a = "2^64" -> 4

ExactLess(x, y) ==
    \/ AnchorRank(x.a) < AnchorRank(y.a)
    \/ x.a = y.a /\ 2 * x.d + x.half < 2 * y.d + y.half

\* C15: for an integer within 1000 of i64::MIN or i64::MAX the bound
\* computation either fails with NumericRangeOverflow or returns bounds
\* with minimum <= value <= maximum; it never returns a wrapped bound.
C15_NoSilentWrap ==
    (Called /\ value.kind = "number" /\ as_i64(value.n).some
        /\ tier \in {"Comprehensive", "Expert"}) =>
        \/ /\ result.tag = "Ok"
           /\ ~ExactLess(Exact(value.n), Exact(IndexGet(Schema, "minimum").n))
           /\ ~ExactLess(Exact(IndexGet(Schema, "maximum").n), Exact(value.n))
        \/ /\ result.tag = "Err"
           /\ result.err = "NumericRangeOverflow"

\* C16: at Standard the minimum of a number's schema is the input value,
\* exactly, for every number, and there is no maximum and no examples.
C16_StandardMinimum ==
    (ReturnedNumber /\ tier = "Standard") =>
        /\ IndexGet(Schema, "minimum").kind = "number"
        /\ Exact(IndexGet(Schema, "minimum").n) = Exact(value.n)
        /\ ~HasField(Schema, "maximum")
        /\ ~HasField(Schema, "examples")

\* C17: at Expert a number of type "integer" has multipleOf = 1 and the
\* title "Generated Integer Schema"; a number of type "number" has the title
\* "Generated Number Schema" and no multipleOf.
C17_TitleAgreesWithType ==
    (ReturnedNumber /\ tier = "Expert") =>
        /\ IndexGet(Schema, "type") = String("integer") =>
              /\ IndexGet(Schema, "multipleOf") = Integer(1)
              /\ IndexGet(Schema, "title") = String("Generated Integer Schema")
        /\ IndexGet(Schema, "type") = String("number") =>
              /\ ~HasField(Schema, "multipleOf")
              /\ IndexGet(Schema, "title") = String("Generated Number Schema")

\* The document {"type":"null"}.
NullDocument == Object(<< <<"type", String("null")>> >>)

\* C18: the schema of Null is exactly {"type":"null"} at every tier, and
\* every Null nested in an object or an array contributes exactly that
\* schema: as the property of its key, as items when it is the first element
\* of a homogeneous array, as its entry of oneOf otherwise.
C18_NullSchema ==
    /\ (Returned /\ value = Null) => Schema = NullDocument
    /\ ReturnedObject =>
          \A i \in 1..Len(value.map) :
              value.map[i][2] = Null =>
                  IndexGet(IndexGet(Schema, "properties"), value.map[i][1]) = NullDocument
    /\ ReturnedArray =>
          LET items == IndexGet(Schema, "items")
          IN IF OneKind(value.elems)
             THEN value.elems[1] = Null => items = NullDocument
             ELSE \A i \in 1..Len(value.elems) :
                      value.elems[i] = Null =>
                          IndexGet(items, "oneOf").elems[i] = NullDocument

\* An array of Null and a number has been processed at Expert, and the entry
\* of Null in oneOf is the null document.
C18_Witness ==
    /\ ReturnedArray
    /\ tier = "Expert"
    /\ value.elems = <<Null, Integer(1)>>
    /\ IndexGet(IndexGet(Schema, "items"), "oneOf").elems[1] = NullDocument

ReturnedBoolean == Returned /\ value.kind = "boolean"

\* C19: the schema of a boolean b has type "boolean" and nothing else at
\* Basic and Standard; type and examples = [b] and nothing else at
\* Comprehensive; type, examples = [b], title and description and nothing
\* else at Expert.
C19_BooleanSchema ==
    ReturnedBoolean =>
        /\ IndexGet(Schema, "type") = String("boolean")
        /\ tier \in {"Basic", "Standard"} => FieldNames(Schema) = {"type"}
        /\ tier = "Comprehensive" => FieldNames(Schema) = {"type", "examples"}
        /\ tier = "Expert" =>
              /\ FieldNames(Schema) = {"type", "examples", "title", "description"}
              /\ IndexGet(Schema, "title").kind = "string"
              /\ IndexGet(Schema, "description").kind = "string"
        /\ tier \in {"Comprehensive", "Expert"} =>
              IndexGet(Schema, "examples") = Array(<<Bool(value.b)>>)

\* The boolean false has been processed at Comprehensive and is its own
\* example.
C19_Witness ==
    /\ ReturnedBoolean
    /\ tier = "Comprehensive"
    /\ value = Bool(FALSE)
    /\ IndexGet(Schema, "examples") = Array(<<Bool(FALSE)>>)

(***************************************************************************)
(* src/src/cli.rs and src/src/validation.rs: the command-line program.     *)
(* A file name is the sequence of its parts between dots; all files are in *)
(* one directory.                                                          *)
(***************************************************************************)
Unit == "()"

\* What a name of the directory holds.
Absent == [kind |-> "absent"]
Directory == [kind |-> "dir"]
Text(t) == [kind |-> "file", text |-> t]

\* serde_json::to_string / to_string_pretty: the text of a document.
to_string(doc, pretty) == [kind |-> "file", json |-> doc, pretty |-> pretty]

GoodText == "{\"a\": \"ab\"}"
OtherText == "42"
InvalidText == "{invalid: json}"
OverflowText == "-9223372036854775808"

\* Config::default() (config.rs 17-27).
ConfigDefault ==
    [default_tier |-> "Standard", pretty_output |-> FALSE,
     validate_schema |-> FALSE, output_directory |-> None,
     file_extensions |-> <<"json">>]

\* Path::extension: the last part of a name of two parts or more.
extension(path) == IF Len(path) > 1 THEN Some(path[Len(path)]) ELSE None

\* The text save_to_file writes (config.rs 50-55): TOML for a path with the
\* extension toml, pretty JSON otherwise.
config_text(config, path) ==
    [kind |-> "file", config |-> config,
     format |-> IF extension(path) = Some("toml") THEN "toml" ELSE "json"]

\* A path as text: the parts of the name with dots between them.
RECURSIVE PathText(_)
PathText(path) ==
    IF Len(path) = 1
    THEN path[1]
    ELSE PathText(SubSeq(path, 1, Len(path) - 1)) \o "." \o path[Len(path)]

\* The JSON text of a Config read back as a Value: the fields of the struct
\* in their order, output_directory null for None and the path's text for
\* Some.
ConfigValue(config) ==
    Obj(<< <<"default_tier", String(config.default_tier)>>,
           <<"pretty_output", Bool(config.pretty_output)>>,
           <<"validate_schema", Bool(config.validate_schema)>>,
           <<"output_directory",
             IF config.output_directory.some
             THEN String(PathText(config.output_directory.v))
             ELSE Null>>,
           <<"file_extensions",
             Array([i \in 1..Len(config.file_extensions) |->
                        String(config.file_extensions[i])])>> >>)

\* serde_json::from_str on the texts of the input space.
from_str(content) ==
    IF "json" \in DOMAIN content
    THEN Ok(content.json)
    ELSE IF "config" \in DOMAIN content
    THEN IF content.format = "json"
         THEN Ok(ConfigValue(content.config))
         ELSE Err("InvalidJson")
    ELSE CASE content.text = GoodText -> Ok(Obj(<< <<"a", String("ab")>> >>))
           [] content.text = OtherText -> Ok(Integer(42))
           [] content.text = OverflowText -> Ok(I64Min(0))
           [] content.text = InvalidText -> Err("InvalidJson")

\* The names of the directory in the order glob yields them (sorted).
NameOrder ==
    << <<"a", "json">>, <<"a", "schema", "json">>, <<"a", "txt">>,
       <<"b", "json">>, <<"b", "schema", "json">>,
       <<"c", "json">>, <<"c", "schema", "json">>,
       <<"out">>, <<"out", "schema", "json">> >>

Names == {NameOrder[i] : i \in 1..Len(NameOrder)}

\* Path::exists.
exists(fs, path) == fs[path].kind # "absent"

\* fs::read_to_string.
read_to_string(fs, path) ==
    IF fs[path].kind = "file" THEN Ok(fs[path]) ELSE Err("Io")

\* Path::file_stem: the name without its last part, the whole name when it
\* has one part only.
file_stem(path) ==
    IF Len(path) > 1 THEN SubSeq(path, 1, Len(path) - 1) ELSE path

\* The output path when --output is not given (cli.rs 134-140).
default_output_path(path) == file_stem(path) \o <<"schema", "json">>

output_path(a, path) ==
    IF a.output.some THEN a.output.v ELSE default_output_path(path)

\* A pattern with "*" as its first or last part matches the names that end
\* or begin with the other parts.
GlobMatch(pattern, name) ==
    LET n == Len(pattern)
        k == Len(name)
    IN CASE pattern[1] = "*" ->
                k >= n /\ SubSeq(name, k - n + 2, k) = SubSeq(pattern, 2, n)
         [] pattern[n] = "*" ->
                k >= n /\ SubSeq(name, 1, n - 1) = SubSeq(pattern, 1, n - 1)
         [] OTHER -> name = pattern

\* glob::glob: the existing paths that match, sorted.
glob(fs, pattern) ==
    SelectSeq(NameOrder, LAMBDA name : exists(fs, name) /\ GlobMatch(pattern, name))

\* validate_schema: the meta-schema has no keyword but $schema, so every
\* document is valid against it; the call fails only when the validator
\* cannot compile the meta-schema.
validate_schema(schema, compiles) ==
    IF compiles THEN Ok(Unit) ELSE Err("SchemaGeneration")

(***************************************************************************)
(* The input space of the program.                                         *)
(***************************************************************************)
CliTiers == {"Standard", "Comprehensive"}

Directories ==
    {[name \in Names |->
        CASE name = <<"a", "json">> -> aj
          [] name = <<"a", "txt">> -> at
          [] name = <<"b", "json">> -> bj
          [] name = <<"out">> -> o
          [] OTHER -> Absent] :
     aj \in {Absent, Text(GoodText), Text(InvalidText), Text(OverflowText)},
     at \in {Absent, Text(OtherText)},
     bj \in {Absent, Directory, Text(GoodText)},
     o \in {Absent, Text(InvalidText)}}

\* The configurations saved: the default one, and it with an output
\* directory set.
Configs ==
    {ConfigDefault, [ConfigDefault EXCEPT !.output_directory = Some(<<"out">>)]}

\* The paths a configuration is saved to.
ConfigPaths == {<<"out">>, <<"a", "json">>}

SingleInputs == {<<"a", "json">>, <<"b", "json">>, <<"c", "json">>}

Patterns == {<<"*", "json">>, <<"a", "*">>}

ArgsSet ==
    {[input |-> i, output |-> o, pretty |-> p, validate |-> v, batch |-> FALSE] :
        i \in SingleInputs, o \in {None, Some(<<"out">>)},
        p \in BOOLEAN, v \in BOOLEAN}
    \cup
    {[input |-> i, output |-> o, pretty |-> p, validate |-> v, batch |-> TRUE] :
        i \in Patterns, o \in {None, Some(<<"out">>)},
        p \in BOOLEAN, v \in BOOLEAN}

InitCli ==
    /\ overflow_checks \in BOOLEAN
    /\ preserve_order \in BOOLEAN
    /\ tier \in CliTiers
    /\ value = Null
    /\ result = NotCalled
    /\ pc = "run"
    /\ files \in Directories
    /\ args \in ArgsSet
    /\ input = << >>
    /\ json_content = Absent
    /\ todo = << >>
    /\ processed = 0
    /\ errors = << >>
    /\ ret = NotCalled
    /\ run = NotCalled
    /\ matched = << >>
    /\ entry_files = files
    /\ outputs = << >>

(***************************************************************************)
(* The program, one action per step of run, process_batch and              *)
(* process_single_file.  pc is the step about to run.                      *)
(***************************************************************************)
build == <<overflow_checks, preserve_order, tier, args>>

\* run without --batch: call process_single_file(input, &args).
RunSingle ==
    /\ pc = "run"
    /\ ~args.batch
    /\ input' = args.input
    /\ entry_files' = files
    /\ pc' = "exists"
    /\ UNCHANGED <<build, value, result, files, json_content, todo, processed,
                   errors, ret, run, matched, outputs>>

\* run with --batch: process_batch up to the loop over glob's entries.
RunBatch ==
    /\ pc = "run"
    /\ args.batch
    /\ todo' = glob(files, args.input)
    /\ matched' = glob(files, args.input)
    /\ processed' = 0
    /\ errors' = << >>
    /\ pc' = "loop"
    /\ UNCHANGED <<build, value, result, files, input, json_content, ret, run,
                   entry_files, outputs>>

\* The loop takes the next entry and calls process_single_file on it.
BatchNext ==
    /\ pc = "loop"
    /\ todo # << >>
    /\ input' = Head(todo)
    /\ todo' = Tail(todo)
    /\ entry_files' = files
    /\ ret' = NotCalled
    /\ pc' = "exists"
    /\ UNCHANGED <<build, value, result, files, json_content, processed, errors,
                   run, matched, outputs>>

Exists ==
    /\ pc = "exists"
    /\ IF exists(files, input)
       THEN pc' = "read" /\ ret' = ret
       ELSE pc' = "return" /\ ret' = Err("FileNotFound")
    /\ UNCHANGED <<build, value, result, files, input, json_content, todo,
                   processed, errors, run, matched, entry_files, outputs>>

Read ==
    /\ pc = "read"
    /\ LET r == read_to_string(files, input)
       IN IF r.tag = "Ok"
          THEN pc' = "parse" /\ json_content' = r.val /\ ret' = ret
          ELSE pc' = "return" /\ json_content' = json_content /\ ret' = r
    /\ UNCHANGED <<build, value, result, files, input, todo, processed, errors,
                   run, matched, entry_files, outputs>>

Parse ==
    /\ pc = "parse"
    /\ LET r == from_str(json_content)
       IN IF r.tag = "Ok"
          THEN pc' = "generate" /\ value' = r.val /\ ret' = ret
          ELSE pc' = "return" /\ value' = value /\ ret' = r
    /\ UNCHANGED <<build, result, files, input, json_content, todo, processed,
                   errors, run, matched, entry_files, outputs>>

\* generate_schema(&json_value, &args.tier)?; a panic ends the program.
Generate ==
    /\ pc = "generate"
    /\ result' = generate_schema(value, tier)
    /\ IF result'.tag = "Ok"
       THEN pc' = "validate" /\ run' = run
       ELSE pc' = "exit" /\ run' = result'
    /\ UNCHANGED <<build, value, files, input, json_content, todo, processed,
                   errors, ret, matched, entry_files, outputs>>

Validate ==
    /\ pc = "validate"
    /\ IF args.validate
       THEN \E compiles \in BOOLEAN :
               LET r == validate_schema(result.val, compiles)
               IN IF r.tag = "Ok"
                  THEN pc' = "write" /\ ret' = ret
                  ELSE pc' = "return" /\ ret' = r
       ELSE pc' = "write" /\ ret' = ret
    /\ UNCHANGED <<build, value, result, files, input, json_content, todo,
                   processed, errors, run, matched, entry_files, outputs>>

\* The output path, the serialisation and fs::write (cli.rs 132-154).
Write ==
    /\ pc = "write"
    /\ LET path == output_path(args, input)
       IN IF files[path].kind = "dir"
          THEN /\ ret' = Err("Io")
               /\ UNCHANGED <<files, outputs>>
          ELSE /\ files' = [files EXCEPT ![path] = to_string(result.val, args.pretty)]
               /\ outputs' = Append(outputs, <<input, path>>)
               /\ ret' = Ok(Unit)
    /\ pc' = "return"
    /\ UNCHANGED <<build, value, result, input, json_content, todo, processed,
                   errors, run, matched, entry_files>>

\* run returns what process_single_file returned.
ReturnSingle ==
    /\ pc = "return"
    /\ ~args.batch
    /\ run' = ret
    /\ pc' = "exit"
    /\ UNCHANGED <<build, value, result, files, input, json_content, todo,
                   processed, errors, ret, matched, entry_files, outputs>>

\* process_batch counts a success and records a failure (cli.rs 93-96).
BatchRecord ==
    /\ pc = "return"
    /\ args.batch
    /\ IF ret.tag = "Ok"
       THEN processed' = processed + 1 /\ errors' = errors
       ELSE processed' = processed /\ errors' = Append(errors, <<input, ret.err>>)
    /\ pc' = "loop"
    /\ UNCHANGED <<build, value, result, files, input, json_content, todo, ret,
                   run, matched, entry_files, outputs>>

\* After the loop process_batch prints the count and returns Ok.
BatchReport ==
    /\ pc = "loop"
    /\ todo = << >>
    /\ run' = Ok(Unit)
    /\ pc' = "exit"
    /\ UNCHANGED <<build, value, result, files, input, json_content, todo,
                   processed, errors, ret, matched, entry_files, outputs>>

\* Config::save_to_file(&self, path) (config.rs 49-61), a public function of
\* the library that run never calls: a client of the library calls it
\* before or after run.
SaveToFile ==
    /\ pc \in {"run", "exit"}
    /\ run.tag # "Panic"
    /\ \E config \in Configs, path \in ConfigPaths :
          IF files[path].kind = "dir"
          THEN files' = files
          ELSE files' = [files EXCEPT ![path] = config_text(config, path)]
    /\ UNCHANGED <<build, value, result, pc, input, json_content, todo,
                   processed, errors, ret, run, matched, entry_files, outputs>>

NextCli ==
    \/ SaveToFile
    \/ RunSingle
    \/ RunBatch
    \/ BatchNext
    \/ Exists
    \/ Read
    \/ Parse
    \/ Generate
    \/ Validate
    \/ Write
    \/ ReturnSingle
    \/ BatchRecord
    \/ BatchReport

SpecCli == InitCli /\ [][NextCli]_vars

(***************************************************************************)
(* Properties of the program.                                              *)
(***************************************************************************)
\* process_single_file has returned to its caller.
SingleFileReturned == pc = "return"

\* The program was ended by a panic inside process_single_file.
SingleFileAborted == pc = "exit" /\ run.tag = "Panic"

\* What the input path held when process_single_file was entered.
Source == entry_files[input]

\* C21: process_single_file writes the output only after the input was
\* found, read, parsed, its schema generated and, with --validate,
\* validated; when one of these steps fails the call returns that error
\* (FileNotFound for a missing file, InvalidJson for malformed JSON,
\* SchemaGeneration for a failed validation) and no file of the directory is
\* created or modified.
C21_FailureLeavesNoOutput ==
    /\ pc \in {"exists", "read", "parse", "generate", "validate", "write"} =>
          files = entry_files
    /\ SingleFileAborted => files = entry_files
    /\ (SingleFileReturned /\ ret.tag # "Ok") => files = entry_files
    /\ (SingleFileReturned \/ SingleFileAborted) =>
          /\ SingleFileReturned
          /\ Source.kind = "absent" <=> ret = Err("FileNotFound")
          /\ (Source.kind = "file" /\ from_str(Source).tag = "Err")
                <=> ret = Err("InvalidJson")
          /\ ret = Err("SchemaGeneration") => args.validate
          /\ ret.tag = "Ok" =>
                /\ from_str(Source).tag = "Ok"
                /\ files[output_path(args, input)].kind = "file"

\* The batch run has ended by returning from process_batch.
BatchReturned == args.batch /\ pc = "exit" /\ run.tag # "Panic"

\* The inputs of the writes done, and the paths the failures were recorded
\* for.
Succeeded == {outputs[i][1] : i \in 1..Len(outputs)}
Failed == {errors[i][1] : i \in 1..Len(errors)}

\* C22: in batch mode every matched path is processed exactly once, the
\* count reported is the number of matched files that succeeded, every such
\* file gets its own <input-stem>.schema.json when --output is not given,
\* and a failure on one file is recorded without stopping the others or
\* making the run return an error.
C22_BatchOutputs ==
    BatchReturned =>
        /\ run = Ok(Unit)
        /\ todo = << >>
        /\ Succeeded \cup Failed = {matched[i] : i \in 1..Len(matched)}
        /\ Succeeded \cap Failed = {}
        /\ Len(outputs) + Len(errors) = Len(matched)
        /\ processed = Len(outputs)
        /\ \A i \in 1..Len(matched) :
              (\/ entry_files[matched[i]].kind = "dir"
               \/ /\ entry_files[matched[i]].kind = "file"
                  /\ from_str(entry_files[matched[i]]).tag = "Err")
                 => matched[i] \in Failed
        /\ ~args.output.some =>
              /\ \A i \in 1..Len(outputs) :
                    /\ outputs[i][2] = file_stem(outputs[i][1]) \o <<"schema", "json">>
                    /\ files[outputs[i][2]].kind = "file"
              /\ \A i, j \in 1..Len(outputs) :
                    i # j => outputs[i][2] # outputs[j][2]

(***************************************************************************)
(* Properties of the whole schema tree (specification Spec).               *)
(***************************************************************************)
\* The pairs <<value, schema>> of the input value and of every child value
\* that has a schema of its own in the document: the value of every entry of
\* an object under properties, the first element of a homogeneous array
\* under items, every element of a heterogeneous array under items.oneOf.
RECURSIVE SubSchemas(_, _)
SubSchemas(v, sch) ==
    {<<v, sch>>} \cup
    CASE v.kind = "object" ->
            UNION {SubSchemas(v.map[i][2],
                              IndexGet(IndexGet(sch, "properties"), v.map[i][1])) :
                   i \in 1..Len(v.map)}
      [] v.kind = "array" /\ v.elems # << >> /\ OneKind(v.elems) ->
            SubSchemas(v.elems[1], IndexGet(sch, "items"))
      [] v.kind = "array" /\ v.elems # << >> /\ ~OneKind(v.elems) ->
            UNION {SubSchemas(v.elems[i],
                              IndexGet(IndexGet(sch, "items"), "oneOf").elems[i]) :
                   i \in 1..Len(v.elems)}
      [] OTHER -> {}

\* The type names a value's kind can be given.
TypeNames(v) ==
    IF v.kind = "number" THEN {String("integer"), String("number")}
    ELSE {String(v.kind)}

\* C23: the schema document and every sub-schema under properties, items or
\* oneOf carries a type field that names the kind of the value it was
\* generated from; the only objects without type are an items object that
\* holds oneOf and the empty items object of an empty array.
C23_TypeEverywhere ==
    Returned =>
        \A p \in SubSchemas(value, Schema) :
            LET v == p[1]
                sch == p[2]
                items == IndexGet(sch, "items")
            IN /\ sch.kind = "object"
               /\ IndexGet(sch, "type") \in TypeNames(v)
               /\ v.kind = "array" =>
                     /\ items.kind = "object"
                     /\ v.elems = << >> => FieldNames(items) = {}
                     /\ (v.elems # << >> /\ ~OneKind(v.elems)) =>
                           FieldNames(items) = {"oneOf"}
                     /\ (v.elems # << >> /\ OneKind(v.elems)) =>
                           HasField(items, "type")

\* An object holding an array of a number, a string and a number has been
\* processed: items has oneOf and no type, the entries of oneOf have types.
C23_Witness ==
    /\ ReturnedObject
    /\ value = Obj(<< <<"a", Array(<<Integer(1), String("ab"), Integer(1)>>)>> >>)
    /\ LET items == IndexGet(IndexGet(IndexGet(Schema, "properties"), "a"), "items")
       IN /\ ~HasField(items, "type")
          /\ IndexGet(IndexGet(items, "oneOf").elems[2], "type") = String("string")

BasicFields == {"type", "properties", "items", "oneOf"}

\* Every sub-schema is the schema of its child value at the tier of the
\* call, and at Basic it has no field beyond type, properties, items, oneOf.
Threaded ==
    \A p \in SubSchemas(value, Schema) :
        /\ Ok(p[2]) = generate_schema(p[1], tier)
        /\ tier = "Basic" =>
              /\ FieldNames(p[2]) \subseteq BasicFields
              /\ HasField(p[2], "items") =>
                    FieldNames(IndexGet(p[2], "items")) \subseteq BasicFields

\* C24 as claimed: the tier is threaded unchanged through the recursion, so
\* at Comprehensive and Expert every object at any depth carries $schema,
\* required and additionalProperties = false, and at Basic no schema at any
\* depth carries a field beyond type, properties, items, oneOf.
C24_TierThreaded ==
    Returned =>
        /\ Threaded
        /\ tier \in {"Comprehensive", "Expert"} =>
              \A p \in SubSchemas(value, Schema) :
                  p[1].kind = "object" =>
                      /\ HasField(p[2], "$schema")
                      /\ HasField(p[2], "required")
                      /\ IndexGet(p[2], "additionalProperties") = Bool(FALSE)

\* C24 amended: as claimed, but an object carries required only when it has
\* at least one entry; an empty object at any depth has no required.
C24_TierThreadedNonEmpty ==
    Returned =>
        /\ Threaded
        /\ tier \in {"Comprehensive", "Expert"} =>
              \A p \in SubSchemas(value, Schema) :
                  p[1].kind = "object" =>
                      /\ HasField(p[2], "$schema")
                      /\ HasField(p[2], "required") <=> p[1].map # << >>
                      /\ IndexGet(p[2], "additionalProperties") = Bool(FALSE)

\* An object nested in an object has been processed at Comprehensive and
\* carries $schema, required and additionalProperties = false itself.
C24_Witness ==
    /\ ReturnedObject
    /\ tier = "Comprehensive"
    /\ value = Obj(<< <<"a", Obj(<< <<"b", Integer(1)>>, <<"a", Null>> >>)>> >>)
    /\ LET nested == IndexGet(IndexGet(Schema, "properties"), "a")
       IN /\ HasField(nested, "$schema")
          /\ HasField(nested, "required")
          /\ IndexGet(nested, "additionalProperties") = Bool(FALSE)

(***************************************************************************)
(* The run of the single-file implementation: one call of schema.rs's      *)
(* generate_schema(&value, &tier) on the inputs of Spec.                   *)
(***************************************************************************)
GenerateSchemaSingleFile ==
    /\ pc = "call"
    /\ result' = schema_rs_generate_schema(value, tier)
    /\ pc' = "done"
    /\ UNCHANGED <<overflow_checks, preserve_order, value, tier>>
    /\ UNCHANGED vars_cli

NextSingleFile == GenerateSchemaSingleFile

SpecSingleFile == Init /\ [][NextSingleFile]_vars

\* C25: for every value and every tier, generate_schema of the single-file
\* implementation (schema.rs) gives what generate_schema of the modular
\* implementation (schema/mod.rs, generators.rs, types.rs) gives: the same
\* document, or the same abort.
C25_Equivalent == Called => result = generate_schema(value, tier)

\* The single-file implementation has processed an array of two kinds at
\* Expert: its set of kinds has two members and items holds oneOf.
C25_Witness ==
    /\ Returned
    /\ tier = "Expert"
    /\ value = Array(<<Integer(1), String("ab"), Integer(1)>>)
    /\ HasField(IndexGet(Schema, "items"), "oneOf")

====
